---- MODULE Spec2Model ----
(***************************************************************************)
(* State-machine model of PackageCommand (the packaging pipeline):         *)
(* build -> load descriptors -> flatten -> incremental filter -> derive    *)
(* -> bundle -> archive (concurrent) -> write back descriptors.            *)
(* A path below the target directory is a pair <<directory, basename>>;    *)
(* the extension (.js, .zip, .info.json) is given by the field it is in.   *)
(***************************************************************************)
EXTENDS Integers, Sequences, FiniteSets, TLC

\* -------------------------------------------------------------- bounds
MaxRuns == 3          \* consecutive invocations of run() on the same target
MaxBytes == 2         \* archive.pointer() is a value of 1..MaxBytes
MaxDiag == 1          \* errors, and warnings, one bundler result carries
MaxScripts == 2       \* scripts the build step produces descriptors for
MaxFailures == 1      \* warning/error events one archive emits

\* ------------------------------------------------------- paths, fields
\* a.*, b.* and sub/a.*: two files of the same basename, two of the same directory
Paths == { <<"", "a">>, <<"", "b">>, <<"sub", "a">> }

\* glob.sync returns its matches sorted: a.*, b.*, sub/a.*
GlobOrder == << <<"", "a">>, <<"", "b">>, <<"sub", "a">> >>

\* a field a descriptor does not have (delete script.zipFile, never set)
NoPath == <<>>
NoName == ""
NoSize == 0
NoFile == [main |-> NoPath]

\* path.basename(main, '.js') and path.dirname(main)
Basename(main) == main[2]
Dirname(main) == main[1]

\* the descriptor the build step writes for an entry script: main and
\* isStatic, none of the fields run() and createPackage() add
BuildInfo(main, isStatic) ==
  [main |-> main, isStatic |-> isStatic, name |-> NoName, bundlePath |-> NoName,
   dirname |-> NoName, zipFile |-> NoPath, infoFile |-> NoPath, archiveSize |-> NoSize]

\* faulty variant: the archive is placed like the bundle, without the
\* directory of the script
DeriveInfosFlatZip(script) ==
  LET name    == Basename(script.main)
      dirname == IF script.isStatic THEN "" ELSE Dirname(script.main)
  IN [script EXCEPT !.name = name,
                    !.bundlePath = name,
                    !.dirname = dirname,
                    !.zipFile = <<"", name>>,
                    !.infoFile = <<dirname, name>>]

\* run(), lines 233-243: the derived fields of one script
DeriveInfos(script) ==
  LET name == Basename(script.main)
      dirname == IF script.isStatic THEN "" ELSE Dirname(script.main)
  IN [script EXCEPT !.name = name,
                    !.bundlePath = name,
                    !.dirname = dirname,
                    !.zipFile = <<dirname, name>>,
                    !.infoFile = <<dirname, name>>]

\* where the descriptor of a script is persisted: the build step writes it
\* at the place run() writes it back to (line 241), so that every script
\* keeps one descriptor file from run to run
InfoLocation(main, isStatic) == DeriveInfos(BuildInfo(main, isStatic)).infoFile

VARIABLES
  sources,      \* the entry scripts of the project: main -> isStatic
  infoDisk,     \* the *.info.json files below the target: path -> descriptor
  zipDisk,      \* the *.zip files below the target: path -> "none" | "partial" | "complete"
  onlyModified, \* this._onlyModified
  runs,         \* invocations of run() so far
  pc,           \* position of the current run()
  desc,         \* the descriptor objects in memory: main -> descriptor
  loaded,       \* the descriptors as they were read from disk in this run
  scripts,      \* the local variable scripts of run(): sequence of mains
  bundler,      \* the ActionBundler invocation of this run
  op,           \* the createPackage promise and streams of each script
  events,       \* notifications emitted in this run
  log,          \* what this run logged
  io,           \* streams opened and descriptor files written in this run
  hist,         \* the scripts whose archiving was rejected in the previous run
  bar,          \* the ProgressBar of run()
  ctx           \* a RequestContext

vars == <<sources, infoDisk, zipDisk, onlyModified, runs, pc, desc, loaded,
          scripts, bundler, op, events, log, io, hist, bar, ctx>>

Mains == Paths

IdleOp == [stream |-> "none", hadErrors |-> FALSE, settled |-> "none",
           assigned |-> FALSE, pointer |-> NoSize, streamError |-> FALSE]

NoBundler == [calls |-> 0, files |-> <<>>, returned |-> FALSE,
              errors |-> 0, warnings |-> 0]

NoEvents == [created |-> [m \in Mains |-> 0], ignored |-> [m \in Mains |-> 0]]

NoLog == [errors |-> 0, warnings |-> 0, archive |-> [m \in Mains |-> 0],
          completed |-> FALSE]

NoIo == [build |-> "none", streams |-> {}, written |-> {}, read |-> {}, checked |-> {}]

\* no progress bar yet (it is created at line 246), no request handled yet
NoBar == [total |-> 0, curr |-> 0, percent |-> 0, entries |-> <<>>]
NoCtx == [constructed |-> FALSE]

\* the projects the build step can be given: entry scripts with pairwise
\* distinct descriptor files
Projects ==
  { f \in UNION { [S -> BOOLEAN] : S \in SUBSET Mains } :
      /\ Cardinality(DOMAIN f) <= MaxScripts
      /\ \A m, n \in DOMAIN f :
           InfoLocation(m, f[m]) = InfoLocation(n, f[n]) => m = n }

Init ==
  /\ sources \in Projects
  /\ infoDisk = [p \in Paths |-> NoFile]
  /\ zipDisk = [p \in Paths |-> "none"]
  /\ onlyModified = FALSE
  /\ runs = 0
  /\ pc = "idle"
  /\ desc = <<>>
  /\ loaded = <<>>
  /\ scripts = <<>>
  /\ bundler = NoBundler
  /\ op = [m \in Mains |-> IdleOp]
  /\ events = NoEvents
  /\ log = NoLog
  /\ io = NoIo
  /\ hist = [failed |-> {}]
  /\ bar = NoBar
  /\ ctx = NoCtx

\* ------------------------------------------------------------- helpers
Range(f) == { f[i] : i \in DOMAIN f }

\* the elements of sequence s that satisfy Keep, in order
RECURSIVE FilterSeq(_, _)
FilterSeq(s, keep) ==
  IF s = <<>> THEN <<>>
  ELSE IF Head(s) \in keep THEN <<Head(s)>> \o FilterSeq(Tail(s), keep)
  ELSE FilterSeq(Tail(s), keep)

Terminal == {"idle", "done", "rejected", "crashed"}

\* ------------------------------------------------------------- actions
\* withOnlyModified(value) and the start of run(): a new invocation on the
\* same target directory. Whatever the previous invocation left in flight
\* is gone with its process; the files it wrote stay, except the zip files
\* in removed, which were deleted from the target in the meantime (what
\* fs.pathExists of line 220 answers is decided outside run()).
StartRun(value, removed) ==
  /\ pc \in Terminal
  /\ runs < MaxRuns
  /\ runs' = runs + 1
  /\ onlyModified' = value
  /\ pc' = "build"
  /\ desc' = <<>>
  /\ loaded' = <<>>
  /\ scripts' = <<>>
  /\ bundler' = NoBundler
  /\ op' = [m \in Mains |-> IdleOp]
  /\ events' = NoEvents
  /\ log' = NoLog
  /\ io' = NoIo
  /\ hist' = [failed |-> { m \in Mains : op[m].settled = "rejected" }]
  /\ zipDisk' = [p \in Paths |-> IF p \in removed THEN "none" ELSE zipDisk[p]]
  /\ UNCHANGED <<bar, ctx, sources, infoDisk>>

\* new BuildCommand(...).run() resolves: every entry script has a descriptor
\* file; the scripts in fresh are (re)built and get a new descriptor, the
\* descriptor files of the others are left as they are.
BuildResolves(fresh) ==
  /\ pc = "build"
  /\ infoDisk' =
       [p \in Paths |->
          IF \E m \in DOMAIN sources :
               /\ InfoLocation(m, sources[m]) = p
               /\ (m \in fresh \/ infoDisk[p] = NoFile)
          THEN LET m == CHOOSE n \in DOMAIN sources : InfoLocation(n, sources[n]) = p
               IN BuildInfo(m, sources[m])
          ELSE infoDisk[p]]
  /\ pc' = "load"
  /\ io' = [io EXCEPT !.build = "resolved"]
  /\ UNCHANGED <<bar, ctx, sources, zipDisk, onlyModified, runs, desc, loaded, scripts,
                 bundler, op, events, log, hist>>

\* faulty variant: the rejection of the build is caught and run() goes on
BuildRejectionSwallowed == "load"

\* run(), lines 204-207: the build is awaited, its rejection leaves run()
OnBuildRejected == "rejected"

\* new BuildCommand(...).run() rejects: the await throws out of run()
BuildRejects ==
  /\ pc = "build"
  /\ pc' = OnBuildRejected
  /\ io' = [io EXCEPT !.build = "rejected"]
  /\ UNCHANGED <<bar, ctx, sources, infoDisk, zipDisk, onlyModified, runs, desc, loaded,
                 scripts, bundler, op, events, log, hist>>

\* glob.sync + fs.readJSON of every descriptor file, then flattenDependencies,
\* which keeps one descriptor per script (requires are not part of this state)
LoadDescriptors ==
  /\ pc = "load"
  /\ LET infos == FilterSeq(GlobOrder, { p \in Paths : infoDisk[p] # NoFile })
         mains == [i \in DOMAIN infos |-> infoDisk[infos[i]].main]
         read == [m \in Range(mains) |->
                    infoDisk[CHOOSE p \in Range(infos) : infoDisk[p].main = m]]
     IN /\ desc' = read
        /\ loaded' = read
        /\ scripts' = mains
        /\ io' = [io EXCEPT !.read = Range(infos)]
  /\ pc' = "filter"
  /\ UNCHANGED <<bar, ctx, sources, infoDisk, zipDisk, onlyModified, runs, bundler, op,
                 events, log, hist>>

\* faulty variant: the existence of the zip file is not looked at
ZipMissingUnchecked(script) == script.zipFile = NoPath

\* run(), line 220: the zip path of the script is unset or is not on disk
ZipMissing(script) ==
  script.zipFile = NoPath \/ zipDisk[script.zipFile] = "none"

\* run(), lines 218-224: delete script.zipFile when the zip is missing
ClearZipFile(script) ==
  IF ZipMissing(script) THEN [script EXCEPT !.zipFile = NoPath] ELSE script

\* faulty variant: the result of the filter is dropped
RemainingAll(list, infos) == list

\* run(), line 228: scripts = scripts.filter((script) => !script.zipFile)
Remaining(list, infos) == FilterSeq(list, { m \in Range(list) : infos[m].zipFile = NoPath })

\* faulty variant: the filter runs whatever the flag says
FilterAlways == TRUE

\* run(), line 217: if (this._onlyModified)
FilterEnabled == onlyModified

\* run(), lines 216-229: the incremental filter. Without onlyModified nothing
\* is checked or changed; with it the scripts that keep their zipFile are
\* reported with ignore-package and dropped.
IncrementalFilter ==
  /\ pc = "filter"
  /\ IF FilterEnabled
     THEN LET cleared == [m \in DOMAIN desc |-> ClearZipFile(desc[m])]
              ignored == { m \in Range(scripts) : cleared[m].zipFile # NoPath }
          IN /\ desc' = cleared
             /\ events' = [events EXCEPT !.ignored =
                  [m \in Mains |-> IF m \in ignored THEN @[m] + 1 ELSE @[m]]]
             /\ scripts' = Remaining(scripts, cleared)
             /\ io' = [io EXCEPT !.checked =
                  { desc[m].zipFile : m \in { n \in Range(scripts) : desc[n].zipFile # NoPath } }]
     ELSE UNCHANGED <<desc, events, scripts, io>>
  /\ pc' = "filtered"
  /\ UNCHANGED <<bar, ctx, sources, infoDisk, zipDisk, onlyModified, runs, loaded, bundler,
                 op, log, hist>>

\* createBundles(), lines 184-187: files[script.name] = resolve(target, main);
\* a later script with the same name replaces the entry of an earlier one
BundleFiles(list, infos) ==
  [n \in { infos[list[i]].name : i \in DOMAIN list } |->
     LET last == CHOOSE i \in DOMAIN list :
                   /\ infos[list[i]].name = n
                   /\ \A j \in DOMAIN list : infos[list[j]].name = n => j <= i
     IN infos[list[last]].main]

\* faulty variant: the steps after the filter run for an empty set too
HasScriptsAlways == TRUE

\* run(), line 231: if (scripts.length > 0)
HasScripts == Len(scripts) > 0

\* run(), lines 231-254, up to the await of bundler.run(files): the derived
\* fields of every remaining script, then the single bundler invocation
DeriveAndBundle ==
  /\ pc = "filtered"
  /\ HasScripts
  /\ LET derived == [m \in DOMAIN desc |->
                       IF m \in Range(scripts) THEN DeriveInfos(desc[m]) ELSE desc[m]]
     IN /\ desc' = derived
        /\ bundler' = [bundler EXCEPT !.calls = @ + 1,
                                      !.files = BundleFiles(scripts, derived)]
  /\ pc' = "bundling"
  /\ UNCHANGED <<bar, ctx, sources, infoDisk, zipDisk, onlyModified, runs, loaded, scripts,
                 op, events, log, io, hist>>

\* faulty variant: returned errors are thrown
AfterBundlingFatal(errors, warnings) == IF errors > 0 THEN "rejected" ELSE "bundled"

\* createBundles(), lines 188-195: the returned errors and warnings are
\* logged and createBundles returns normally, whatever their number
AfterBundling(errors, warnings) == "bundled"

\* createBundles(), lines 188-194: bundler.run returns stats; every returned
\* error and warning is logged
BundlerReturns(errors, warnings) ==
  /\ pc = "bundling"
  /\ bundler' = [bundler EXCEPT !.returned = TRUE, !.errors = errors,
                                !.warnings = warnings]
  /\ log' = [log EXCEPT !.errors = @ + errors, !.warnings = @ + warnings]
  /\ pc' = AfterBundling(errors, warnings)
  /\ UNCHANGED <<bar, ctx, sources, infoDisk, zipDisk, onlyModified, runs, desc, loaded,
                 scripts, op, events, io, hist>>

\* bundler.run throws: createBundles and run() reject
BundlerThrows ==
  /\ pc = "bundling"
  /\ pc' = "rejected"
  /\ UNCHANGED <<bar, ctx, sources, infoDisk, zipDisk, onlyModified, runs, desc, loaded,
                 scripts, bundler, op, events, log, io, hist>>

\* faulty variant: createBundles is not awaited
ArchivingStartsUnawaited == "bundling"

\* run(), lines 254-257: the createPackage calls are issued when the awaited
\* createBundles has returned
ArchivingStartsAt == "bundled"

\* run(), line 257 and createPackage(), lines 107-151: one promise per
\* script, each opening a write stream on the script's zipFile
StartArchiving ==
  /\ pc = ArchivingStartsAt
  /\ LET zips == { desc[m].zipFile : m \in Range(scripts) }
     IN /\ op' = [m \in Mains |->
                    IF m \in Range(scripts)
                    THEN [IdleOp EXCEPT !.stream = "open", !.settled = "pending"]
                    ELSE op[m]]
        /\ io' = [io EXCEPT !.streams = @ \cup zips]
        /\ zipDisk' = [p \in Paths |-> IF p \in zips THEN "partial" ELSE zipDisk[p]]
  /\ pc' = "archiving"
  /\ UNCHANGED <<bar, ctx, sources, infoDisk, onlyModified, runs, desc, loaded, scripts,
                 bundler, events, log, hist>>

\* faulty variant: the promises are awaited with allSettled: a rejection is swallowed
AwaitAllSettled(ops, position) ==
  IF position # "archiving" THEN position
  ELSE IF \A m \in Range(scripts) : ops[m].settled \in {"resolved", "rejected"}
       THEN "persist"
  ELSE "archiving"

\* faulty variant: the promises are raced: run() continues with the first one resolved
AwaitRace(ops, position) ==
  IF position # "archiving" THEN position
  ELSE IF \E m \in Range(scripts) : ops[m].settled = "rejected" THEN "rejected"
  ELSE IF \E m \in Range(scripts) : ops[m].settled = "resolved" THEN "persist"
  ELSE "archiving"

\* run(), line 257: await Promise.all(...) over the createPackage promises.
\* It throws as soon as one promise is rejected and continues when all are
\* resolved; once run() has left the await, settling changes nothing.
AwaitAll(ops, position) ==
  IF position # "archiving" THEN position
  ELSE IF \E m \in Range(scripts) : ops[m].settled = "rejected" THEN "rejected"
  ELSE IF \A m \in Range(scripts) : ops[m].settled = "resolved" THEN "persist"
  ELSE "archiving"

\* a promise settles once: reject() and resolve() after that do nothing
Settle(o, how) == IF o.settled = "pending" THEN [o EXCEPT !.settled = how] ELSE o

\* createPackage(), lines 129-138: the handler of the archive's 'warning'
\* and 'error' events: log, hadErrors = true, reject(err)
OnArchiveFailure(o) == Settle([o EXCEPT !.hadErrors = TRUE], "rejected")

ArchiveFailure(m) ==
  /\ pc \in {"archiving", "rejected"}
  /\ op[m].stream = "open"
  /\ log.archive[m] < MaxFailures
  /\ log' = [log EXCEPT !.archive[m] = @ + 1]
  /\ op' = [op EXCEPT ![m] = OnArchiveFailure(@)]
  /\ pc' = AwaitAll(op', pc)
  /\ UNCHANGED <<bar, ctx, sources, infoDisk, zipDisk, onlyModified, runs, desc, loaded,
                 scripts, bundler, events, io, hist>>

\* archive.on('warning', ...), lines 129-133
ArchiveWarning(m) == ArchiveFailure(m)

\* archive.on('error', ...), lines 134-138
ArchiveError(m) == ArchiveFailure(m)

\* faulty variant: the close handler does not look at hadErrors
CloseSucceedsAlways(o) == TRUE

\* faulty variant: a close after run() has rejected is dropped
CloseSucceedsWhileAwaited(o) == ~o.hadErrors /\ pc = "archiving"

\* createPackage(), line 117: the close handler acts only without errors
CloseSucceeds(o) == ~o.hadErrors

\* faulty variant: the size is not recorded
RecordNoSize(script, bytes) == script

\* createPackage(), line 120: info.archiveSize = archive.pointer()
RecordSize(script, bytes) == [script EXCEPT !.archiveSize = bytes]

\* output.on('close', ...), lines 116-124, with archive.pointer() = bytes:
\* without errors the size is recorded, create-package is emitted and the
\* promise resolved; with errors nothing happens and the file stays as it is
StreamClose(m, bytes) ==
  /\ pc \in {"archiving", "rejected"}
  /\ op[m].stream = "open"
  /\ IF CloseSucceeds(op[m])
     THEN /\ desc' = [desc EXCEPT ![m] = RecordSize(@, bytes)]
          /\ events' = [events EXCEPT !.created[m] = @ + 1]
          /\ op' = [op EXCEPT ![m] = Settle([@ EXCEPT !.stream = "closed",
                                                      !.assigned = TRUE,
                                                      !.pointer = bytes], "resolved")]
          /\ zipDisk' = [zipDisk EXCEPT ![desc[m].zipFile] = "complete"]
     ELSE /\ op' = [op EXCEPT ![m].stream = "closed"]
          /\ UNCHANGED <<desc, events, zipDisk>>
  /\ pc' = AwaitAll(op', pc)
  /\ UNCHANGED <<bar, ctx, sources, infoDisk, onlyModified, runs, loaded, scripts, bundler,
                 log, io, hist>>

\* the write stream emits 'error' (line 112 registers no handler for it):
\* the event is thrown as an uncaught exception and ends the process; the
\* promise of the script is neither resolved nor rejected
StreamError(m) ==
  /\ pc \in {"archiving", "rejected"}
  /\ op[m].stream = "open"
  /\ op' = [op EXCEPT ![m].stream = "failed", ![m].streamError = TRUE]
  /\ pc' = "crashed"
  /\ UNCHANGED <<bar, ctx, sources, infoDisk, zipDisk, onlyModified, runs, desc, loaded,
                 scripts, bundler, events, log, io, hist>>

\* faulty variant: the descriptors are written back in a finally block
WriteBackInFinally == {"persist", "rejected"}

\* run(), lines 257-261: the write-back follows the await of Promise.all in
\* the same block, with no try/finally around the await
WriteBackAt == {"persist"}

\* run(), lines 259-261: every processed descriptor is written to its
\* infoFile; a later script with the same infoFile overwrites an earlier one
WrittenInfo(p) ==
  LET last == CHOOSE i \in DOMAIN scripts :
                /\ desc[scripts[i]].infoFile = p
                /\ \A j \in DOMAIN scripts : desc[scripts[j]].infoFile = p => j <= i
  IN desc[scripts[last]]

WriteBack ==
  /\ pc \in WriteBackAt
  /\ LET files == { desc[m].infoFile : m \in Range(scripts) }
     IN /\ infoDisk' = [p \in Paths |-> IF p \in files THEN WrittenInfo(p) ELSE infoDisk[p]]
        /\ io' = [io EXCEPT !.written = files]
  /\ pc' = "persisted"
  /\ UNCHANGED <<bar, ctx, sources, zipDisk, onlyModified, runs, desc, loaded, scripts,
                 bundler, op, events, log, hist>>

\* run(), lines 264-265: the completion message, reached when no script is
\* left after the filter or when the descriptors are written back
Complete ==
  /\ \/ pc = "filtered" /\ ~HasScripts
     \/ pc = "persisted"
  /\ log' = [log EXCEPT !.completed = TRUE]
  /\ pc' = "done"
  /\ UNCHANGED <<bar, ctx, sources, infoDisk, zipDisk, onlyModified, runs, desc, loaded,
                 scripts, bundler, op, events, io, hist>>

Next ==
  \/ \E value \in BOOLEAN, removed \in SUBSET { p \in Paths : zipDisk[p] # "none" } :
       StartRun(value, removed)
  \/ \E fresh \in SUBSET DOMAIN sources : BuildResolves(fresh)
  \/ BuildRejects
  \/ LoadDescriptors
  \/ IncrementalFilter
  \/ DeriveAndBundle
  \/ \E errors, warnings \in 0..MaxDiag : BundlerReturns(errors, warnings)
  \/ BundlerThrows
  \/ StartArchiving
  \/ \E m \in Mains : ArchiveWarning(m)
  \/ \E m \in Mains : ArchiveError(m)
  \/ \E m \in Mains, bytes \in 1..MaxBytes : StreamClose(m, bytes)
  \/ \E m \in Mains : StreamError(m)
  \/ WriteBack
  \/ Complete

Spec == Init /\ [][Next]_vars

\* ------------------------------------------------------------- claims
Processed == Range(scripts)

\* the scripts the incremental filter of this run has skipped
Skipped == { m \in DOMAIN loaded : events.ignored[m] > 0 }

\* C1: no archive write stream is opened for any script before the single
\* bundler invocation has returned and its errors and warnings are logged
C1_ArchiveAfterBundling ==
  \A m \in Mains :
    op[m].stream # "none" =>
      /\ bundler.calls = 1
      /\ bundler.returned
      /\ log.errors = bundler.errors
      /\ log.warnings = bundler.warnings

C1_Witness ==
  /\ \E m \in Mains : op[m].stream = "open"
  /\ bundler.errors > 0
  /\ bundler.warnings > 0

\* C2: create-package is emitted at most once per script, only after the
\* script's stream closed with no warning or error signalled before; a
\* script whose archiving rejects gets no create-package and no archiveSize
\* from that operation
C2_CreatePackageOnce ==
  \A m \in Mains :
    /\ events.created[m] <= 1
    /\ events.created[m] > 0 =>
         op[m].stream = "closed" /\ ~op[m].hadErrors /\ log.archive[m] = 0
    /\ op[m].settled = "rejected" => events.created[m] = 0 /\ ~op[m].assigned

C2_Witness ==
  \E m, n \in Mains :
    /\ op[m].settled = "rejected" /\ op[m].stream = "closed"
    /\ events.created[n] = 1

\* C3 as stated: at the end of a run a descriptor has an archiveSize iff
\* archiving of that script succeeded in that run
C3_Original ==
  pc \in {"done", "rejected", "crashed"} =>
    \A m \in DOMAIN desc :
      desc[m].archiveSize # NoSize <=> op[m].settled = "resolved"

\* C3 (amended): a descriptor whose archiving succeeded in this run has the
\* size its archive operation recorded; every other descriptor has exactly
\* the archiveSize (or none) its info file held when it was loaded
C3_ArchiveSizeThisRun ==
  \A m \in DOMAIN desc :
    IF op[m].settled = "resolved"
    THEN desc[m].archiveSize = op[m].pointer /\ op[m].pointer # NoSize
    ELSE desc[m].archiveSize = loaded[m].archiveSize

C3_Witness ==
  /\ pc = "rejected"
  /\ \E m, n \in DOMAIN desc :
       /\ op[m].settled = "rejected"
       /\ desc[m].archiveSize # NoSize
       /\ op[n].settled = "resolved"
       /\ loaded[n].archiveSize # NoSize
       /\ loaded[n].archiveSize # desc[n].archiveSize

\* C4: when no script is left after the filter, run() goes straight to the
\* completion message: no bundler invocation, no archive stream, no
\* descriptor file written, no zip file changed, no rejection
C4_EmptySetNoWork ==
  [][(pc = "filtered" /\ Len(scripts) = 0) =>
       /\ pc' = "done"
       /\ log'.completed
       /\ bundler'.calls = 0
       /\ io'.streams = {} /\ io'.written = {}
       /\ infoDisk' = infoDisk /\ zipDisk' = zipDisk]_vars

C4_Witness ==
  /\ pc = "done" /\ log.completed
  /\ Len(scripts) = 0
  /\ DOMAIN loaded # {}
  /\ bundler.calls = 0 /\ io.streams = {} /\ io.written = {}

\* the zip of a loaded descriptor is on disk
ZipOnDisk(m) == loaded[m].zipFile # NoPath /\ zipDisk[loaded[m].zipFile] # "none"

\* C5: with onlyModified, a loaded descriptor whose zipFile exists is dropped
\* and reported by exactly one ignore-package carrying it; any other is
\* kept, not reported, and has no zipFile when the filter finishes
C5_IncrementalFilter ==
  (pc = "filtered" /\ onlyModified) =>
    \A m \in DOMAIN loaded :
      IF ZipOnDisk(m)
      THEN m \notin Processed /\ events.ignored[m] = 1 /\ desc[m] = loaded[m]
      ELSE /\ Cardinality({ i \in DOMAIN scripts : scripts[i] = m }) = 1
           /\ events.ignored[m] = 0
           /\ desc[m].zipFile = NoPath

C5_Witness ==
  /\ pc = "filtered" /\ onlyModified
  /\ \E m, n \in DOMAIN loaded :
       /\ ZipOnDisk(m)
       /\ loaded[n].zipFile # NoPath /\ zipDisk[loaded[n].zipFile] = "none"

\* C6: if archiving rejects for a script, run() rejects and the completion
\* message is not logged (the process may still end on a later stream error)
C6_ArchiveRejectFailsRun ==
  (\E m \in Mains : op[m].settled = "rejected") =>
    pc \in {"rejected", "crashed"} /\ ~log.completed

C6_Witness ==
  /\ pc = "rejected"
  /\ \E m, n \in Mains : op[m].settled = "rejected" /\ op[n].settled = "resolved"

\* C7 as stated: a failure of the output write stream rejects the script's
\* operation with a diagnostic
C7_StreamFailureRejects ==
  \A m \in Mains :
    op[m].streamError => op[m].settled = "rejected" /\ log.archive[m] > 0

\* C8 as stated: a script whose archiving failed in the previous run is not
\* skipped by the incremental filter, and no file left by a failed write is
\* taken for a valid archive
C8_FailedIsRetried ==
  (pc = "filtered" /\ onlyModified) =>
    /\ \A m \in hist.failed \cap DOMAIN loaded :
         m \in Processed /\ events.ignored[m] = 0
    /\ \A m \in Skipped : zipDisk[loaded[m].zipFile] = "complete"

\* C9: a script skipped by the filter has no entry in the bundler's mapping,
\* no write stream on its zipFile, and its descriptor file is not rewritten;
\* only the remaining scripts are bundled, archived and written back
C9_SkippedUntouched ==
  /\ \A m \in Skipped :
       /\ \A n \in DOMAIN bundler.files : bundler.files[n] # m
       /\ loaded[m].zipFile \notin io.streams
       /\ loaded[m].infoFile \notin io.written
       /\ infoDisk[loaded[m].infoFile] = loaded[m]
       /\ op[m].stream = "none"
  /\ Range(bundler.files) \subseteq Processed
  /\ io.streams \subseteq { desc[m].zipFile : m \in Processed }
  /\ io.written \subseteq { desc[m].infoFile : m \in Processed }

C9_Witness ==
  /\ pc = "done"
  /\ Skipped # {}
  /\ io.written # {}

C11_BuildFailureStopsRun ==
  io.build = "rejected" =>
    /\ pc = "rejected"
    /\ io.read = {} /\ io.checked = {} /\ io.streams = {} /\ io.written = {}
    /\ events = NoEvents
    /\ bundler.calls = 0
    /\ \A m \in Mains : op[m].stream = "none"
    /\ ~log.completed

C11_Witness ==
  /\ io.build = "rejected"
  /\ pc = "rejected"
  /\ runs > 1
  /\ \E p \in Paths : infoDisk[p] # NoFile /\ zipDisk[p] = "complete"

\* C14: without onlyModified the filter leaves every loaded descriptor as it
\* is, passes the whole set on, checks no path and emits no ignore-package
C14_FilterDisabled ==
  (~onlyModified /\ pc \notin {"idle", "build", "load", "filter"} /\ io.build = "resolved") =>
    /\ Range(scripts) = DOMAIN loaded
    /\ Len(scripts) = Cardinality(DOMAIN loaded)
    /\ io.checked = {}
    /\ \A m \in Mains : events.ignored[m] = 0
    /\ pc = "filtered" => desc = loaded

C14_Witness ==
  /\ ~onlyModified /\ pc = "filtered"
  /\ \E m, n \in DOMAIN loaded :
       /\ loaded[m].zipFile # NoPath /\ zipDisk[loaded[m].zipFile] = "none"
       /\ loaded[n].zipFile # NoPath /\ zipDisk[loaded[n].zipFile] # "none"
       /\ desc[m].zipFile # NoPath

\* the derived fields of the processed scripts exist once run() is past
\* lines 233-243
Derived == bundler.calls > 0

C13_NamesUnique ==
  Derived =>
    /\ \A m, n \in Processed :
         m # n => /\ desc[m].name # desc[n].name
                  /\ desc[m].bundlePath # desc[n].bundlePath
    /\ Cardinality(DOMAIN bundler.files) = Len(scripts)

\* C16: descriptors are written back only after every archive operation of
\* the run has resolved, and what is written to the infoFile of a processed
\* script holds the archiveSize its archive operation recorded in this run
C16_WriteBackAfterArchives ==
  io.written # {} =>
    \A m \in Processed :
      /\ op[m].settled = "resolved"
      /\ op[m].stream = "closed" /\ op[m].assigned
      /\ desc[m].infoFile \in io.written
      /\ infoDisk[desc[m].infoFile].main = m
      /\ infoDisk[desc[m].infoFile].archiveSize = op[m].pointer
      /\ op[m].pointer # NoSize

C16_Witness ==
  /\ pc = "persisted"
  /\ Len(scripts) = 2
  /\ \E m \in Processed :
       /\ loaded[m].archiveSize # NoSize
       /\ loaded[m].archiveSize # op[m].pointer
       /\ infoDisk[desc[m].infoFile].archiveSize = op[m].pointer

\* C17: archive operations are independent. A step of one operation changes
\* nothing of another one, and a stream that closes without an error on its
\* own operation records archiveSize, emits create-package and completes its
\* archive, also after run() has been rejected by another operation
C17_SiblingsNotCancelled ==
  [][\A m \in Processed :
       /\ (op[m].stream = "open" /\ ~op[m].hadErrors /\ op'[m].stream = "closed") =>
            /\ op'[m].settled = "resolved" /\ op'[m].assigned
            /\ desc'[m].archiveSize = op'[m].pointer
            /\ events'.created[m] = events.created[m] + 1
            /\ zipDisk'[desc[m].zipFile] = "complete"
       /\ (pc \in {"archiving", "rejected"} /\ runs' = runs /\ op'[m] # op[m]) =>
            \A n \in Processed \ {m} :
              /\ op'[n] = op[n]
              /\ desc'[n] = desc[n]
              /\ events'.created[n] = events.created[n]]_vars

C17_Witness ==
  /\ pc = "rejected"
  /\ \E m, n \in Processed :
       /\ op[m].settled = "rejected" /\ op[m].stream = "closed" /\ ~op[m].assigned
       /\ op[n].settled = "resolved" /\ op[n].assigned
       /\ events.created[n] = 1 /\ events.created[m] = 0
       /\ desc[n].archiveSize = op[n].pointer
       /\ io.written = {}

\* C19: when the archiving of one script is rejected, no descriptor file is
\* written in that run, not even for a script whose archive succeeded: its
\* new archiveSize is in memory only and every descriptor file holds what
\* was loaded from it
C19_NoWriteBackAfterRejection ==
  (\E m \in Processed : op[m].settled = "rejected") =>
    /\ io.written = {}
    /\ ~log.completed
    /\ \A m \in DOMAIN loaded : infoDisk[InfoLocation(m, loaded[m].isStatic)] = loaded[m]

C19_Witness ==
  /\ pc = "rejected"
  /\ \E m, n \in Processed :
       /\ op[m].settled = "rejected"
       /\ op[n].settled = "resolved" /\ events.created[n] = 1
       /\ desc[n].archiveSize # NoSize
       /\ desc[n].archiveSize # infoDisk[desc[n].infoFile].archiveSize
       /\ infoDisk[desc[n].infoFile] = loaded[n]

\* ------------------------------------------- dependency flattening
\* flattenDependencies (packager-utils.js, called at line 214) replaces the
\* requires of every descriptor by its transitive closure. The states below
\* hold descriptors with their requires: desc is the list passed in and
\* mutated, loaded keeps the requires as they were read.

MaxRequires == 2

\* the sequences over S of length at most n
SeqsUpTo(S, n) == UNION { [1..k -> S] : k \in 0..n }

\* the requires reached from the paths in queue, in the order they are
\* found; a path already found and the script itself are skipped
RECURSIVE Resolve(_, _, _, _)
Resolve(queue, done, self, infos) ==
  IF queue = <<>> THEN done
  ELSE LET d == Head(queue)
       IN IF d = self \/ d \in Range(done)
          THEN Resolve(Tail(queue), done, self, infos)
          ELSE Resolve(Tail(queue) \o infos[d].requires, Append(done, d), self, infos)

\* faulty variant: the requires are deduplicated but not followed
FlattenDirect(infos) ==
  [m \in DOMAIN infos |->
     [infos[m] EXCEPT !.requires =
        Resolve(@, <<>>, m, [n \in DOMAIN infos |-> [requires |-> <<>>]])]]

\* flattenDependencies(scriptInfos): the closure of every script, without
\* duplicates and without the script itself
FlattenDependencies(infos) ==
  [m \in DOMAIN infos |->
     [infos[m] EXCEPT !.requires = Resolve(@, <<>>, m, infos)]]

\* some script reaches itself through requires
Cyclic(infos) ==
  \E m \in DOMAIN infos : m \in Range(Resolve(infos[m].requires, <<>>, NoPath, infos))

FlattenInit ==
  /\ desc \in [Mains -> { [requires |-> r] : r \in SeqsUpTo(Mains, MaxRequires) }]
  /\ loaded = desc
  /\ pc = "load"
  /\ sources = [m \in Mains |-> FALSE]
  /\ infoDisk = [p \in Paths |-> NoFile]
  /\ zipDisk = [p \in Paths |-> "none"]
  /\ onlyModified = FALSE
  /\ runs = 1
  /\ scripts = <<>>
  /\ bundler = NoBundler
  /\ op = [m \in Mains |-> IdleOp]
  /\ events = NoEvents
  /\ log = NoLog
  /\ io = NoIo
  /\ hist = [failed |-> {}]
  /\ bar = NoBar
  /\ ctx = NoCtx

\* run(), line 214: the loaded descriptors are flattened in place
Flatten ==
  /\ pc = "load"
  /\ desc' = FlattenDependencies(desc)
  /\ pc' = "filter"
  /\ UNCHANGED <<bar, ctx, sources, infoDisk, zipDisk, onlyModified, runs, loaded,
                 scripts, bundler, op, events, log, io, hist>>

\* the alternative left open for cyclic requires: flattening fails and
\* run() rejects
FlattenRejectsCycle ==
  /\ pc = "load"
  /\ Cyclic(desc)
  /\ pc' = "rejected"
  /\ UNCHANGED <<bar, ctx, sources, infoDisk, zipDisk, onlyModified, runs, desc, loaded,
                 scripts, bundler, op, events, log, io, hist>>

FlattenNext == Flatten \/ FlattenRejectsCycle

SpecFlatten == FlattenInit /\ [][FlattenNext]_vars

NoDuplicates(s) == \A i, j \in DOMAIN s : s[i] = s[j] => i = j

Flattened == pc = "filter" /\ DOMAIN desc = Mains /\ DOMAIN loaded = Mains

\* C15 as stated: after flattening no requires has a duplicate and requires
\* is transitively closed: if A requires B and B requires C then the
\* flattened requires of A includes C
C15_Original ==
  Flattened =>
    \A a \in Mains :
      /\ NoDuplicates(desc[a].requires)
      /\ \A b \in Range(loaded[a].requires) : \A c \in Range(loaded[b].requires) :
           c \in Range(desc[a].requires)

\* C15 amended: the same for every C other than A itself; a script is not
\* among its own flattened requires
C15_FlattenedClosure ==
  Flattened =>
    \A a \in Mains :
      /\ NoDuplicates(desc[a].requires)
      /\ Range(loaded[a].requires) \ {a} \subseteq Range(desc[a].requires)
      /\ \A b \in Range(loaded[a].requires) : \A c \in Range(loaded[b].requires) :
           c # a => c \in Range(desc[a].requires)
      /\ \A b \in Range(desc[a].requires) : \A c \in Range(desc[b].requires) :
           c # a => c \in Range(desc[a].requires)

C15_Witness ==
  /\ Flattened
  /\ \E a, b, c \in Mains :
       /\ a # b /\ b # c /\ a # c
       /\ loaded[a].requires = <<b, b>>
       /\ loaded[b].requires = <<c>>
       /\ loaded[c].requires = <<a>>
       /\ desc[a].requires = <<b, c>>

\* ------------------------------------------------------ progress bar
\* The progress bar of run() on its own: its creation, the progress callback
\* of the bundler and the tick of every archive entry. bar.percent is the
\* last percent reported, in steps of 1/PercentSteps; bar.entries counts the
\* 'entry' events of every archive.

PercentSteps == 4

\* createPackage(), lines 149-150: package.json and the bundle
EntriesPerArchive == 2

\* the sequences of distinct scripts a run can be left with
ScriptLists ==
  { l \in SeqsUpTo(Mains, MaxScripts) : Len(l) > 0 /\ \A i, j \in DOMAIN l : l[i] = l[j] => i = j }

ProgressInit ==
  /\ scripts \in ScriptLists
  /\ pc = "filtered"
  /\ bar = NoBar
  /\ sources = [m \in Range(scripts) |-> FALSE]
  /\ infoDisk = [p \in Paths |-> NoFile]
  /\ zipDisk = [p \in Paths |-> "none"]
  /\ onlyModified = FALSE
  /\ runs = 1
  /\ desc = <<>>
  /\ loaded = <<>>
  /\ bundler = NoBundler
  /\ op = [m \in Mains |-> IdleOp]
  /\ events = NoEvents
  /\ log = NoLog
  /\ io = NoIo
  /\ hist = [failed |-> {}]
  /\ ctx = NoCtx

\* run(), lines 246-251: new ProgressBar(..., { total: scripts.length * 2 * 5 })
CreateProgressBar ==
  /\ pc = "filtered"
  /\ HasScripts
  /\ bar' = [total |-> Len(scripts) * 2 * 5, curr |-> 0, percent |-> 0,
             entries |-> [m \in Range(scripts) |-> 0]]
  /\ pc' = "bundling"
  /\ UNCHANGED <<ctx, sources, infoDisk, zipDisk, onlyModified, runs, desc, loaded,
                 scripts, bundler, op, events, log, io, hist>>

\* faulty variant: bundling may fill the whole bar
ProgressGoalFull(percent, total) == (percent * total) \div PercentSteps

\* createBundles(), line 172: bar.update(percent * 0.8): the bar is set to
\* floor(ratio * total), with percent = percent / PercentSteps here
ProgressGoal(percent, total) == (8 * percent * total) \div (10 * PercentSteps)

\* createBundles(), lines 164-175: the progress handler passed to the bundler
ProgressHandler(percent) ==
  /\ pc = "bundling"
  /\ bar' = [bar EXCEPT !.curr = ProgressGoal(percent, bar.total), !.percent = percent]
  /\ UNCHANGED <<ctx, sources, infoDisk, zipDisk, onlyModified, runs, pc, desc, loaded,
                 scripts, bundler, op, events, log, io, hist>>

\* createBundles() returns and the archives are started (lines 254-257)
BundlingEnds ==
  /\ pc = "bundling"
  /\ pc' = "archiving"
  /\ UNCHANGED <<bar, ctx, sources, infoDisk, zipDisk, onlyModified, runs, desc, loaded,
                 scripts, bundler, op, events, log, io, hist>>

\* createPackage(), lines 93-105 and 125-128: every 'entry' event of an
\* archive ticks the bar once
ArchiveEntry(m) ==
  /\ pc = "archiving"
  /\ m \in Range(scripts)
  /\ bar.entries[m] < EntriesPerArchive
  /\ bar' = [bar EXCEPT !.curr = @ + 1, !.entries[m] = @ + 1]
  /\ UNCHANGED <<ctx, sources, infoDisk, zipDisk, onlyModified, runs, pc, desc, loaded,
                 scripts, bundler, op, events, log, io, hist>>

ProgressNext ==
  \/ CreateProgressBar
  \/ \E percent \in 0..PercentSteps : ProgressHandler(percent)
  \/ BundlingEnds
  \/ \E m \in Mains : ArchiveEntry(m)

SpecProgress == ProgressInit /\ [][ProgressNext]_vars

RECURSIVE EntriesWritten(_)
EntriesWritten(list) ==
  IF list = <<>> THEN 0 ELSE bar.entries[Head(list)] + EntriesWritten(Tail(list))

\* C18: for n processed scripts the total is 10 * n from the creation of the
\* bar on; bundling never moves the counter above 8 * n; every archive entry
\* adds one; the counter never exceeds the total and equals it exactly when
\* the bundler's last report was percent 1 and every archive has written
\* both of its entries
C18_ProgressAccounting ==
  pc \in {"bundling", "archiving"} =>
    LET n == Len(scripts) IN
    /\ bar.total = 10 * n
    /\ pc = "bundling" => bar.curr <= 8 * n /\ EntriesWritten(scripts) = 0
    /\ bar.curr = ProgressGoal(bar.percent, bar.total) + EntriesWritten(scripts)
    /\ EntriesWritten(scripts) <= 2 * n
    /\ (bar.percent = PercentSteps) <=> (ProgressGoal(bar.percent, bar.total) = 8 * n)
    /\ bar.curr <= bar.total
    /\ (bar.curr = bar.total) <=>
         /\ bar.percent = PercentSteps
         /\ \A m \in Range(scripts) : bar.entries[m] = EntriesPerArchive

C18_Witness ==
  /\ pc = "archiving"
  /\ Len(scripts) = 2
  /\ bar.curr = bar.total
  /\ bar.total = 20

\* ---------------------------------------------------- RequestContext
\* The constructor of RequestContext on request urls. A string is a sequence
\* of characters; indices are those of JavaScript, starting at 0.

MaxUrlLen == 5

Chars == {"/", ".", "?", "a"}

\* req.url: undefined or empty, or a path that starts with a slash
Urls == { u \in SeqsUpTo(Chars, MaxUrlLen) : u = <<>> \/ u[1] = "/" }

\* String.prototype.lastIndexOf: -1 when c does not occur
LastIndexOf(str, c) ==
  LET at == { i \in 1..Len(str) : str[i] = c }
  IN IF at = {} THEN -1 ELSE (CHOOSE i \in at : \A j \in at : j <= i) - 1

\* String.prototype.substring: both indices are clamped to 0..length and
\* swapped when the first is the larger
Substring(str, start, end) ==
  LET Clamp(i) == IF i < 0 THEN 0 ELSE IF i > Len(str) THEN Len(str) ELSE i
      from == IF Clamp(start) <= Clamp(end) THEN Clamp(start) ELSE Clamp(end)
      to   == IF Clamp(start) <= Clamp(end) THEN Clamp(end) ELSE Clamp(start)
  IN SubSeq(str, from + 1, to)

\* constructor(req, cfg), lines 19-45
RequestContext(url) ==
  LET path      == IF url = <<>> THEN <<"/">> ELSE url
      lastSlash == LastIndexOf(path, "/")
      lastDot   == LastIndexOf(path, ".")
      cut       == Substring(path, 0, lastDot)
      queryParamIndex == LastIndexOf(path, "?")
      selDot    == LastIndexOf(cut, ".")
  IN IF lastDot > lastSlash
     THEN [constructed |-> TRUE, url |-> url, path |-> path,
           extension |-> Substring(path, lastDot + 1,
                                   IF queryParamIndex # -1 THEN queryParamIndex
                                   ELSE Len(path)),
           selector |-> IF selDot > lastSlash
                        THEN Substring(cut, selDot + 1, Len(cut)) ELSE <<>>,
           resourcePath |-> IF selDot > lastSlash
                            THEN Substring(cut, 0, selDot) ELSE cut]
     ELSE [constructed |-> TRUE, url |-> url, path |-> path,
           extension |-> <<>>, selector |-> <<>>,
           resourcePath |-> IF lastSlash = Len(path) - 1
                            THEN path \o <<"i", "n", "d", "e", "x">> ELSE path]

RequestInit ==
  /\ ctx \in { [constructed |-> FALSE, url |-> u] : u \in Urls }
  /\ pc = "idle"
  /\ bar = NoBar
  /\ sources = <<>>
  /\ infoDisk = [p \in Paths |-> NoFile]
  /\ zipDisk = [p \in Paths |-> "none"]
  /\ onlyModified = FALSE
  /\ runs = 0
  /\ desc = <<>>
  /\ loaded = <<>>
  /\ scripts = <<>>
  /\ bundler = NoBundler
  /\ op = [m \in Mains |-> IdleOp]
  /\ events = NoEvents
  /\ log = NoLog
  /\ io = NoIo
  /\ hist = [failed |-> {}]

\* new RequestContext(req, cfg)
NewRequestContext ==
  /\ ~ctx.constructed
  /\ ctx' = RequestContext(ctx.url)
  /\ UNCHANGED <<bar, sources, infoDisk, zipDisk, onlyModified, runs, pc, desc, loaded,
                 scripts, bundler, op, events, log, io, hist>>

RequestNext == NewRequestContext

SpecRequest == RequestInit /\ [][RequestNext]_vars

\* the part of a url before its query string
BeforeQuery(path) ==
  LET at == { i \in 1..Len(path) : path[i] = "?" }
  IN IF at = {} THEN path ELSE SubSeq(path, 1, (CHOOSE i \in at : \A j \in at : i <= j) - 1)

\* the text after the last dot of the last segment of a path, empty without
\* such a dot
AfterLastDot(path) ==
  IF LastIndexOf(path, ".") > LastIndexOf(path, "/")
  THEN SubSeq(path, LastIndexOf(path, ".") + 2, Len(path)) ELSE <<>>

\* C20: for every url the extension is the text after the last dot of the
\* last path segment, up to the query string: it holds neither '?' nor '/',
\* whatever the query string contains, and resourcePath holds nothing of the
\* query string
C20_ExtensionWithoutQuery ==
  ctx.constructed =>
    /\ "?" \notin Range(ctx.extension)
    /\ "/" \notin Range(ctx.extension)
    /\ ctx.extension = AfterLastDot(BeforeQuery(ctx.path))
    /\ "?" \notin Range(ctx.resourcePath)

====
